---- MODULE Spec2Model ----
(***************************************************************************)
(* Model of CWebviz (argos3-webviz, webviz.cpp): the experiment state      *)
(* register, the five control operations run by the web server's caller    *)
(* thread, and the simulation thread started in the constructor.  The two  *)
(* threads share m_eExperimentState, m_bFastForwarding, the tick length    *)
(* and the simulator without any lock, so every access of shared state is  *)
(* a step of its own and the steps of the two threads interleave freely.   *)
(***************************************************************************)
EXTENDS Integers, Sequences, FiniteSets, TLC

(* ---- bounds ---- *)
MaxClock == 2            \* length of the experiment: finished when the clock reaches it
MaxDrawFrameEvery == 2   \* largest ff_draw_frames_every read from the XML

(* ---- values ---- *)
EXPERIMENT_INITIALIZED == "EXPERIMENT_INITIALIZED"
EXPERIMENT_PLAYING == "EXPERIMENT_PLAYING"
EXPERIMENT_PAUSED == "EXPERIMENT_PAUSED"
EXPERIMENT_FAST_FORWARDING == "EXPERIMENT_FAST_FORWARDING"

EExperimentState ==
  {EXPERIMENT_INITIALIZED, EXPERIMENT_PLAYING, EXPERIMENT_PAUSED, EXPERIMENT_FAST_FORWARDING}

Threads == {"caller", "driver"}

\* broadcast_frequency values tried at Init: both edges of [1,10] from either side
BroadcastFrequencyInputs == {0, 1, 10, 11}

\* the engine's clock tick, in units of 1/10000 s (0.0015 s and 0.1 s)
ClockTicks == {15, 1000}

VARIABLES
  m_cWebServer,            \* "unset" until Init creates the web server, then "created"
  initResult,              \* "pending", "ok" or "error" (Init threw CARGoSException)
  serving,                 \* Execute started the web server: control operations arrive
  executePc,               \* position of the thread that calls Execute()
  crashed,                 \* the process died on a call through the unset m_cWebServer
  m_unDrawFrameEvery,
  clockTick,               \* CPhysicsEngine::GetSimulationClockTick(), 1/10000 s
  m_eExperimentState,
  m_bFastForwarding,
  m_cSimulatorTickMillis,
  simClock,                \* m_cSpace.GetSimulationClock(): engine steps since the last reset
  pc,                      \* position of each thread
  ret,                     \* where ResetExperiment returns to, per thread
  acct,                    \* per thread: what the current operation / iteration has done so far
  op,                      \* the control operation the caller thread runs or ran last
  outcome,                 \* how that operation ended
  phaseAtCall,             \* m_eExperimentState as read by that operation's guard
  warned,                  \* that operation logged a "[WARNING] ... called in wrong state"
  unFFStepCounter,
  phaseAtCheck,            \* m_eExperimentState as read by the driver at line 98
  sinceRetSteps,           \* engine steps of the driver since the caller's operation returned
  sinceRetChecked,         \* the driver has read the phase since the caller's operation returned
  iterQuiet                \* no control operation was entered since this driver iteration began

cfgVars == <<m_cWebServer, initResult, serving, executePc, crashed,
             m_unDrawFrameEvery, clockTick>>
callVars == <<op, outcome, phaseAtCall, warned>>
sinceVars == <<sinceRetSteps, sinceRetChecked, iterQuiet>>
vars == <<m_cWebServer, initResult, serving, executePc, crashed,
          m_unDrawFrameEvery, clockTick, m_eExperimentState, m_bFastForwarding,
          m_cSimulatorTickMillis, simClock, pc, ret, acct, op, outcome, phaseAtCall, warned,
          unFFStepCounter, phaseAtCheck, sinceRetSteps, sinceRetChecked, iterQuiet>>

(* ---- helpers ---- *)
ZeroAcct == [events |-> <<>>, broadcasts |-> 0, steps |-> 0,
             pre |-> 0, post |-> 0, postExp |-> 0]

Min(a, b) == IF a < b THEN a ELSE b

\* PLAYING or FAST_FORWARDING, the test of lines 99-101, 116-119, 246-248 and 272-274
Active(p) == p \in {EXPERIMENT_PLAYING, EXPERIMENT_FAST_FORWARDING}

\* INITIALIZED or PAUSED, the states lines 191-192 and 220-221 accept
Startable(p) == p \in {EXPERIMENT_INITIALIZED, EXPERIMENT_PAUSED}

\* m_cSimulator.IsExperimentFinished()
IsExperimentFinished == simClock >= MaxClock

\* (long int)(GetSimulationClockTick() * 1000.0f), truncating
TickMillis(t) == (t * 1000) \div 10000

\* m_cWebServer->EmitEvent(name, m_eExperimentState): the event carries the phase read now
EmitEvent(self, name) ==
  [acct EXCEPT ![self].events = Append(@, <<name, m_eExperimentState>>)]

\* BroadcastExperimentState() ends in m_cWebServer->Broadcast(cStateJson)
BroadcastExperimentState(self) ==
  [acct EXCEPT ![self].broadcasts = @ + 1]

\* the driver's bookkeeping of engine steps made while the caller thread is between operations
DriverStepped ==
  sinceRetSteps' = IF pc["caller"] \in {"ret", "idle"} THEN Min(sinceRetSteps + 1, 2) ELSE sinceRetSteps

DriverChecked ==
  sinceRetChecked' = IF pc["caller"] \in {"ret", "idle"} THEN TRUE ELSE sinceRetChecked

Alive == ~crashed /\ initResult # "error"

Init ==
  /\ m_cWebServer = "unset"
  /\ initResult = "pending"
  /\ serving = FALSE
  /\ executePc = "not_called"
  /\ crashed = FALSE
  /\ m_unDrawFrameEvery \in 0..MaxDrawFrameEvery
  /\ clockTick \in ClockTicks
  /\ m_eExperimentState = EXPERIMENT_INITIALIZED
  /\ m_bFastForwarding = FALSE
  /\ m_cSimulatorTickMillis = 0
  /\ simClock = 0
  /\ pc = [t \in Threads |-> IF t = "caller" THEN "idle" ELSE "d_check"]
  /\ ret = [t \in Threads |-> "none"]
  /\ acct = [t \in Threads |-> ZeroAcct]
  /\ op = "none"
  /\ outcome = "none"
  /\ phaseAtCall = EXPERIMENT_INITIALIZED
  /\ warned = FALSE
  /\ unFFStepCounter = 1
  /\ phaseAtCheck = EXPERIMENT_INITIALIZED
  /\ sinceRetSteps = 0
  /\ sinceRetChecked = FALSE
  /\ iterQuiet = TRUE

(* ======================= CWebviz::Init, CWebviz::Execute ======================= *)

\* lines 28-46 with the range [1,1000] that the message of lines 38-39 announces
WebvizInit_MessageRange(bf, dfe) ==
  /\ Alive
  /\ initResult = "pending"
  /\ IF bf < 1 \/ 1000 < bf
       THEN /\ initResult' = "error"
            /\ UNCHANGED <<m_cWebServer, m_unDrawFrameEvery>>
       ELSE /\ initResult' = "ok"
            /\ m_unDrawFrameEvery' = dfe
            /\ m_cWebServer' = "created"
  /\ UNCHANGED <<serving, executePc, crashed, clockTick, m_eExperimentState,
                 m_bFastForwarding, m_cSimulatorTickMillis, simClock, pc, ret, acct, callVars,
                 unFFStepCounter, phaseAtCheck, sinceVars>>

\* lines 28-46: parse the options, reject a frequency outside [1,10], create the server
WebvizInit(bf, dfe) ==
  /\ Alive
  /\ initResult = "pending"
  /\ IF bf < 1 \/ 10 < bf
       THEN /\ initResult' = "error"
            /\ UNCHANGED <<m_cWebServer, m_unDrawFrameEvery>>
       ELSE /\ initResult' = "ok"
            /\ m_unDrawFrameEvery' = dfe
            /\ m_cWebServer' = "created"
  /\ UNCHANGED <<serving, executePc, crashed, clockTick, m_eExperimentState,
                 m_bFastForwarding, m_cSimulatorTickMillis, simClock, pc, ret, acct, callVars,
                 unFFStepCounter, phaseAtCheck, sinceVars>>

\* lines 72-80: the second thread starts the web server, which delivers control
\* operations; Execute waits in t2.join()
Execute ==
  /\ Alive
  /\ initResult = "ok"
  /\ executePc = "not_called"
  /\ serving' = TRUE
  /\ executePc' = "t2_join"
  /\ UNCHANGED <<m_cWebServer, initResult, crashed, m_unDrawFrameEvery, clockTick,
                 m_eExperimentState, m_bFastForwarding, m_cSimulatorTickMillis,
                 simClock, pc, ret, acct, callVars, unFFStepCounter, phaseAtCheck, sinceVars>>

\* line 77 returns: the web server stops between two control operations, its thread
\* ends and t2.join() of line 80 comes back
WebServer_StartReturns ==
  /\ Alive
  /\ executePc = "t2_join"
  /\ pc["caller"] = "idle"
  /\ serving' = FALSE
  /\ executePc' = "driver_join"
  /\ UNCHANGED <<m_cWebServer, initResult, crashed, m_unDrawFrameEvery, clockTick,
                 m_eExperimentState, m_bFastForwarding, m_cSimulatorTickMillis,
                 simClock, pc, ret, acct, callVars, unFFStepCounter, phaseAtCheck, sinceVars>>

\* lines 81-86 with a join that does not wait for the thread function to return
Execute_JoinDriver_NoWait ==
  /\ Alive
  /\ executePc = "driver_join"
  /\ executePc' = "returned"
  /\ UNCHANGED <<m_cWebServer, initResult, serving, crashed, m_unDrawFrameEvery, clockTick,
                 m_eExperimentState, m_bFastForwarding, m_cSimulatorTickMillis,
                 simClock, pc, ret, acct, callVars, unFFStepCounter, phaseAtCheck, sinceVars>>

\* lines 81-86: m_cSimulationThread.join() comes back once the thread function has
\* returned, then Execute flushes the logs and returns
Execute_JoinDriver ==
  /\ Alive
  /\ executePc = "driver_join"
  /\ pc["driver"] = "d_exited"
  /\ executePc' = "returned"
  /\ UNCHANGED <<m_cWebServer, initResult, serving, crashed, m_unDrawFrameEvery, clockTick,
                 m_eExperimentState, m_bFastForwarding, m_cSimulatorTickMillis,
                 simClock, pc, ret, acct, callVars, unFFStepCounter, phaseAtCheck, sinceVars>>

(* ======================= CWebviz::ResetExperiment ======================= *)

\* line 322: m_cSimulator.Reset()
Reset_Simulator(self) ==
  /\ Alive
  /\ pc[self] = "r_sim"
  /\ simClock' = 0
  /\ pc' = [pc EXCEPT ![self] = "r_ff"]
  /\ UNCHANGED <<cfgVars, m_eExperimentState, m_bFastForwarding, m_cSimulatorTickMillis,
                 ret, acct, callVars, unFFStepCounter, phaseAtCheck, sinceVars>>

\* line 325: m_bFastForwarding = false
Reset_ClearFF(self) ==
  /\ Alive
  /\ pc[self] = "r_ff"
  /\ m_bFastForwarding' = FALSE
  /\ pc' = [pc EXCEPT ![self] = "r_state"]
  /\ UNCHANGED <<cfgVars, m_eExperimentState, m_cSimulatorTickMillis, simClock,
                 ret, acct, callVars, unFFStepCounter, phaseAtCheck, sinceVars>>

\* line 327 with the wrong enumerator: the reset run is left PAUSED
Reset_SetState_Paused(self) ==
  /\ Alive
  /\ pc[self] = "r_state"
  /\ m_eExperimentState' = EXPERIMENT_PAUSED
  /\ pc' = [pc EXCEPT ![self] = "r_emit"]
  /\ UNCHANGED <<cfgVars, m_bFastForwarding, m_cSimulatorTickMillis, simClock,
                 ret, acct, callVars, unFFStepCounter, phaseAtCheck, sinceVars>>

\* line 327: m_eExperimentState = EXPERIMENT_INITIALIZED
Reset_SetState(self) ==
  /\ Alive
  /\ pc[self] = "r_state"
  /\ m_eExperimentState' = EXPERIMENT_INITIALIZED
  /\ pc' = [pc EXCEPT ![self] = "r_emit"]
  /\ UNCHANGED <<cfgVars, m_bFastForwarding, m_cSimulatorTickMillis, simClock,
                 ret, acct, callVars, unFFStepCounter, phaseAtCheck, sinceVars>>

\* line 330: EmitEvent("Experiment reset", m_eExperimentState)
Reset_Emit(self) ==
  /\ Alive
  /\ pc[self] = "r_emit"
  /\ acct' = EmitEvent(self, "Experiment reset")
  /\ pc' = [pc EXCEPT ![self] = "r_bc"]
  /\ UNCHANGED <<cfgVars, m_eExperimentState, m_bFastForwarding, m_cSimulatorTickMillis,
                 simClock, ret, callVars, unFFStepCounter, phaseAtCheck, sinceVars>>

\* line 333: BroadcastExperimentState(), then back to the caller of ResetExperiment
Reset_Broadcast(self) ==
  /\ Alive
  /\ pc[self] = "r_bc"
  /\ acct' = BroadcastExperimentState(self)
  /\ pc' = [pc EXCEPT ![self] = ret[self]]
  /\ ret' = [ret EXCEPT ![self] = "none"]
  /\ IF self = "caller" /\ ret[self] = "ret"
       THEN /\ outcome' = "ok"
            /\ UNCHANGED <<op, phaseAtCall, warned>>
       ELSE UNCHANGED callVars
  /\ UNCHANGED <<cfgVars, m_eExperimentState, m_bFastForwarding, m_cSimulatorTickMillis,
                 simClock, unFFStepCounter, phaseAtCheck, sinceVars>>

ResetExperiment(self) ==
  \/ Reset_Simulator(self)
  \/ Reset_ClearFF(self)
  \/ Reset_SetState(self)
  \/ Reset_Emit(self)
  \/ Reset_Broadcast(self)

(* ======================= CWebviz::SimulationThreadFunction ======================= *)

\* lines 97-101: top of the outer loop, one read of m_eExperimentState
Driver_CheckState ==
  /\ Alive
  /\ pc["driver"] = "d_check"
  /\ phaseAtCheck' = m_eExperimentState
  /\ acct' = [acct EXCEPT !["driver"] = ZeroAcct]
  /\ pc' = [pc EXCEPT !["driver"] =
              IF Active(m_eExperimentState) THEN "d_finished" ELSE "d_idle"]
  /\ DriverChecked
  /\ iterQuiet' = (pc["caller"] \in {"ret", "idle"})
  /\ UNCHANGED <<cfgVars, m_eExperimentState, m_bFastForwarding, m_cSimulatorTickMillis,
                 simClock, ret, callVars, unFFStepCounter, sinceRetSteps>>

\* line 102: if (!m_cSimulator.IsExperimentFinished())
Driver_CheckFinished ==
  /\ Alive
  /\ pc["driver"] = "d_finished"
  /\ pc' = [pc EXCEPT !["driver"] =
              IF ~IsExperimentFinished THEN "d_prestep" ELSE "d_already_done"]
  /\ UNCHANGED <<cfgVars, m_eExperimentState, m_bFastForwarding, m_cSimulatorTickMillis,
                 simClock, ret, acct, callVars, unFFStepCounter, phaseAtCheck, sinceVars>>

\* line 104: GetLoopFunctions().PreStep()
Driver_PreStep ==
  /\ Alive
  /\ pc["driver"] = "d_prestep"
  /\ acct' = [acct EXCEPT !["driver"].pre = @ + 1]
  /\ pc' = [pc EXCEPT !["driver"] = "d_burst"]
  /\ UNCHANGED <<cfgVars, m_eExperimentState, m_bFastForwarding, m_cSimulatorTickMillis,
                 simClock, ret, callVars, unFFStepCounter, phaseAtCheck, sinceVars>>

\* lines 106-112 without the else branch: the burst is m_unDrawFrameEvery in every mode
Driver_SetBurst_AlwaysFrames ==
  /\ Alive
  /\ pc["driver"] = "d_burst"
  /\ unFFStepCounter' = m_unDrawFrameEvery
  /\ pc' = [pc EXCEPT !["driver"] = "d_loop"]
  /\ UNCHANGED <<cfgVars, m_eExperimentState, m_bFastForwarding, m_cSimulatorTickMillis,
                 simClock, ret, acct, callVars, phaseAtCheck, sinceVars>>

\* lines 106-112: the burst is m_unDrawFrameEvery when m_bFastForwarding, else 1
Driver_SetBurst ==
  /\ Alive
  /\ pc["driver"] = "d_burst"
  /\ unFFStepCounter' = IF m_bFastForwarding THEN m_unDrawFrameEvery ELSE 1
  /\ pc' = [pc EXCEPT !["driver"] = "d_loop"]
  /\ UNCHANGED <<cfgVars, m_eExperimentState, m_bFastForwarding, m_cSimulatorTickMillis,
                 simClock, ret, acct, callVars, phaseAtCheck, sinceVars>>

\* line 115 entering the loop body on the counter and the engine alone
Driver_LoopCounterFinished_EntersBody ==
  /\ Alive
  /\ pc["driver"] = "d_loop"
  /\ pc' = [pc EXCEPT !["driver"] =
              IF unFFStepCounter > 0 /\ ~IsExperimentFinished
                THEN "d_update" ELSE "d_broadcast"]
  /\ UNCHANGED <<cfgVars, m_eExperimentState, m_bFastForwarding, m_cSimulatorTickMillis,
                 simClock, ret, acct, callVars, unFFStepCounter, phaseAtCheck, sinceVars>>

\* line 115: unFFStepCounter > 0 && !m_cSimulator.IsExperimentFinished() && ...
Driver_LoopCounterFinished ==
  /\ Alive
  /\ pc["driver"] = "d_loop"
  /\ pc' = [pc EXCEPT !["driver"] =
              IF unFFStepCounter > 0 /\ ~IsExperimentFinished
                THEN "d_loop_state" ELSE "d_broadcast"]
  /\ UNCHANGED <<cfgVars, m_eExperimentState, m_bFastForwarding, m_cSimulatorTickMillis,
                 simClock, ret, acct, callVars, unFFStepCounter, phaseAtCheck, sinceVars>>

\* line 115 without the test of lines 116-119: the burst ignores the phase
Driver_LoopState_NoStateCheck ==
  /\ Alive
  /\ pc["driver"] = "d_loop_state"
  /\ pc' = [pc EXCEPT !["driver"] = "d_update"]
  /\ DriverChecked
  /\ UNCHANGED <<cfgVars, m_eExperimentState, m_bFastForwarding, m_cSimulatorTickMillis,
                 simClock, ret, acct, callVars, unFFStepCounter, phaseAtCheck, sinceRetSteps,
                 iterQuiet>>

\* lines 116-119: ... && (m_eExperimentState is PLAYING or FAST_FORWARDING)
Driver_LoopState ==
  /\ Alive
  /\ pc["driver"] = "d_loop_state"
  /\ pc' = [pc EXCEPT !["driver"] =
              IF Active(m_eExperimentState) THEN "d_update" ELSE "d_broadcast"]
  /\ DriverChecked
  /\ UNCHANGED <<cfgVars, m_eExperimentState, m_bFastForwarding, m_cSimulatorTickMillis,
                 simClock, ret, acct, callVars, unFFStepCounter, phaseAtCheck, sinceRetSteps,
                 iterQuiet>>

\* lines 121-128 with the broadcast inside the loop: one snapshot per engine step
Driver_UpdateSpace_Broadcasting ==
  /\ Alive
  /\ pc["driver"] = "d_update"
  /\ simClock' = simClock + 1
  /\ unFFStepCounter' = unFFStepCounter - 1
  /\ acct' = [acct EXCEPT !["driver"].steps = @ + 1, !["driver"].broadcasts = @ + 1]
  /\ pc' = [pc EXCEPT !["driver"] = "d_loop"]
  /\ DriverStepped
  /\ UNCHANGED <<cfgVars, m_eExperimentState, m_bFastForwarding, m_cSimulatorTickMillis,
                 ret, callVars, phaseAtCheck, sinceRetChecked, iterQuiet>>

\* lines 121-124: m_cSimulator.UpdateSpace(); --unFFStepCounter
Driver_UpdateSpace ==
  /\ Alive
  /\ pc["driver"] = "d_update"
  /\ simClock' = simClock + 1
  /\ unFFStepCounter' = unFFStepCounter - 1
  /\ acct' = [acct EXCEPT !["driver"].steps = @ + 1]
  /\ pc' = [pc EXCEPT !["driver"] = "d_loop"]
  /\ DriverStepped
  /\ UNCHANGED <<cfgVars, m_eExperimentState, m_bFastForwarding, m_cSimulatorTickMillis,
                 ret, callVars, phaseAtCheck, sinceRetChecked, iterQuiet>>

\* line 128: BroadcastExperimentState() after the burst
Driver_Broadcast ==
  /\ Alive
  /\ pc["driver"] = "d_broadcast"
  /\ acct' = BroadcastExperimentState("driver")
  /\ pc' = [pc EXCEPT !["driver"] = "d_poststep"]
  /\ UNCHANGED <<cfgVars, m_eExperimentState, m_bFastForwarding, m_cSimulatorTickMillis,
                 simClock, ret, callVars, unFFStepCounter, phaseAtCheck, sinceVars>>

\* line 131: GetLoopFunctions().PostStep()
Driver_PostStep ==
  /\ Alive
  /\ pc["driver"] = "d_poststep"
  /\ acct' = [acct EXCEPT !["driver"].post = @ + 1]
  /\ pc' = [pc EXCEPT !["driver"] = "d_done_check"]
  /\ UNCHANGED <<cfgVars, m_eExperimentState, m_bFastForwarding, m_cSimulatorTickMillis,
                 simClock, ret, callVars, unFFStepCounter, phaseAtCheck, sinceVars>>

\* line 134: if (m_cSimulator.IsExperimentFinished()) after the burst
Driver_CheckDone ==
  /\ Alive
  /\ pc["driver"] = "d_done_check"
  /\ pc' = [pc EXCEPT !["driver"] =
              IF IsExperimentFinished THEN "d_postexp" ELSE "d_pace"]
  /\ UNCHANGED <<cfgVars, m_eExperimentState, m_bFastForwarding, m_cSimulatorTickMillis,
                 simClock, ret, acct, callVars, unFFStepCounter, phaseAtCheck, sinceVars>>

\* lines 136-138: PostExperiment(), then the call of ResetExperiment()
Driver_PostExperiment ==
  /\ Alive
  /\ pc["driver"] = "d_postexp"
  /\ acct' = [acct EXCEPT !["driver"].postExp = @ + 1]
  /\ pc' = [pc EXCEPT !["driver"] = "r_sim"]
  /\ ret' = [ret EXCEPT !["driver"] = "d_emit_done"]
  /\ UNCHANGED <<cfgVars, m_eExperimentState, m_bFastForwarding, m_cSimulatorTickMillis,
                 simClock, callVars, unFFStepCounter, phaseAtCheck, sinceVars>>

\* lines 141-143 without the return: the loop goes on as in lines 170-172
Driver_EmitDone_Continue ==
  /\ Alive
  /\ pc["driver"] = "d_emit_done"
  /\ acct' = EmitEvent("driver", "Experiment done")
  /\ pc' = [pc EXCEPT !["driver"] = "d_check"]
  /\ UNCHANGED <<cfgVars, m_eExperimentState, m_bFastForwarding, m_cSimulatorTickMillis,
                 simClock, ret, callVars, unFFStepCounter, phaseAtCheck, sinceVars>>

\* lines 141-143: EmitEvent("Experiment done", ...); return: the thread ends
Driver_EmitDoneExit ==
  /\ Alive
  /\ pc["driver"] = "d_emit_done"
  /\ acct' = EmitEvent("driver", "Experiment done")
  /\ pc' = [pc EXCEPT !["driver"] = "d_exited"]
  /\ UNCHANGED <<cfgVars, m_eExperimentState, m_bFastForwarding, m_cSimulatorTickMillis,
                 simClock, ret, callVars, unFFStepCounter, phaseAtCheck, sinceVars>>

\* lines 147-162: sleep for the rest of the tick or warn, restart the timer, loop
Driver_Pace ==
  /\ Alive
  /\ pc["driver"] = "d_pace"
  /\ pc' = [pc EXCEPT !["driver"] = "d_check"]
  /\ UNCHANGED <<cfgVars, m_eExperimentState, m_bFastForwarding, m_cSimulatorTickMillis,
                 simClock, ret, acct, callVars, unFFStepCounter, phaseAtCheck, sinceVars>>

\* lines 165-167: the engine was finished before any step: PostExperiment(), ResetExperiment()
Driver_AlreadyDone ==
  /\ Alive
  /\ pc["driver"] = "d_already_done"
  /\ acct' = [acct EXCEPT !["driver"].postExp = @ + 1]
  /\ pc' = [pc EXCEPT !["driver"] = "r_sim"]
  /\ ret' = [ret EXCEPT !["driver"] = "d_emit_done_loop"]
  /\ UNCHANGED <<cfgVars, m_eExperimentState, m_bFastForwarding, m_cSimulatorTickMillis,
                 simClock, callVars, unFFStepCounter, phaseAtCheck, sinceVars>>

\* lines 170-172 ending the thread as line 143 does
Driver_EmitDoneLoop_Exit ==
  /\ Alive
  /\ pc["driver"] = "d_emit_done_loop"
  /\ acct' = EmitEvent("driver", "Experiment done")
  /\ pc' = [pc EXCEPT !["driver"] = "d_exited"]
  /\ UNCHANGED <<cfgVars, m_eExperimentState, m_bFastForwarding, m_cSimulatorTickMillis,
                 simClock, ret, callVars, unFFStepCounter, phaseAtCheck, sinceVars>>

\* lines 170-172: EmitEvent("Experiment done", ...), then the next iteration
Driver_EmitDoneLoop ==
  /\ Alive
  /\ pc["driver"] = "d_emit_done_loop"
  /\ acct' = EmitEvent("driver", "Experiment done")
  /\ pc' = [pc EXCEPT !["driver"] = "d_check"]
  /\ UNCHANGED <<cfgVars, m_eExperimentState, m_bFastForwarding, m_cSimulatorTickMillis,
                 simClock, ret, callVars, unFFStepCounter, phaseAtCheck, sinceVars>>

\* lines 179-180 with the server created: broadcast, sleep 250 ms, next iteration
Driver_IdleBroadcast ==
  /\ Alive
  /\ pc["driver"] = "d_idle"
  /\ m_cWebServer = "created"
  /\ acct' = BroadcastExperimentState("driver")
  /\ pc' = [pc EXCEPT !["driver"] = "d_check"]
  /\ UNCHANGED <<cfgVars, m_eExperimentState, m_bFastForwarding, m_cSimulatorTickMillis,
                 simClock, ret, callVars, unFFStepCounter, phaseAtCheck, sinceVars>>

\* lines 179 and 386 before Init: m_cWebServer->Broadcast through a pointer never set.
\* The call either kills the process or happens to return.
Driver_IdleBroadcastUnset ==
  /\ Alive
  /\ pc["driver"] = "d_idle"
  /\ m_cWebServer = "unset"
  /\ \E dies \in BOOLEAN :
       /\ crashed' = dies
       /\ pc' = [pc EXCEPT !["driver"] = IF dies THEN "d_idle" ELSE "d_check"]
  /\ acct' = BroadcastExperimentState("driver")
  /\ UNCHANGED <<m_cWebServer, initResult, serving, executePc,
                 m_unDrawFrameEvery, clockTick, m_eExperimentState, m_bFastForwarding,
                 m_cSimulatorTickMillis, simClock, ret, callVars, unFFStepCounter,
                 phaseAtCheck, sinceVars>>

SimulationThreadFunction ==
  \/ Driver_CheckState
  \/ Driver_CheckFinished
  \/ Driver_PreStep
  \/ Driver_SetBurst
  \/ Driver_LoopCounterFinished
  \/ Driver_LoopState
  \/ Driver_UpdateSpace
  \/ Driver_Broadcast
  \/ Driver_PostStep
  \/ Driver_CheckDone
  \/ Driver_PostExperiment
  \/ Driver_EmitDoneExit
  \/ Driver_Pace
  \/ Driver_AlreadyDone
  \/ Driver_EmitDoneLoop
  \/ Driver_IdleBroadcast
  \/ Driver_IdleBroadcastUnset
  \/ ResetExperiment("driver")

(* ======================= the control operations, on the caller thread ======================= *)

\* the web server's thread enters a control operation: it runs one at a time
Call(o) ==
  /\ Alive
  /\ serving
  /\ pc["caller"] = "idle"
  /\ op' = o
  /\ phaseAtCall' = m_eExperimentState
  /\ sinceRetSteps' = 0
  /\ sinceRetChecked' = FALSE
  /\ iterQuiet' = FALSE
  /\ UNCHANGED acct

\* the steps of an operation that is under way
Running(at) ==
  /\ Alive
  /\ pc["caller"] = at

(* ---- CWebviz::PlayExperiment ---- *)

\* lines 190-198: the guard; in the wrong state log the warning and return
Play_Check ==
  /\ Call("Play")
  /\ IF ~Startable(m_eExperimentState)
       THEN /\ warned' = TRUE
            /\ outcome' = "rejected"
            /\ pc' = [pc EXCEPT !["caller"] = "ret"]
       ELSE /\ warned' = FALSE
            /\ outcome' = "running"
            /\ pc' = [pc EXCEPT !["caller"] = "p_ff"]
  /\ UNCHANGED <<cfgVars, m_eExperimentState, m_bFastForwarding, m_cSimulatorTickMillis,
                 simClock, ret, unFFStepCounter, phaseAtCheck>>

\* line 200: m_bFastForwarding = false
Play_ClearFF ==
  /\ Running("p_ff")
  /\ m_bFastForwarding' = FALSE
  /\ pc' = [pc EXCEPT !["caller"] = "p_tick"]
  /\ UNCHANGED <<cfgVars, m_eExperimentState, m_cSimulatorTickMillis, simClock, ret, acct,
                 callVars, unFFStepCounter, phaseAtCheck, sinceVars>>

\* lines 202-203: m_cSimulatorTickMillis from GetSimulationClockTick()
Play_SetTick ==
  /\ Running("p_tick")
  /\ m_cSimulatorTickMillis' = TickMillis(clockTick)
  /\ pc' = [pc EXCEPT !["caller"] = "p_state"]
  /\ UNCHANGED <<cfgVars, m_eExperimentState, m_bFastForwarding, simClock, ret, acct,
                 callVars, unFFStepCounter, phaseAtCheck, sinceVars>>

\* line 206: m_eExperimentState = EXPERIMENT_PLAYING
Play_SetState ==
  /\ Running("p_state")
  /\ m_eExperimentState' = EXPERIMENT_PLAYING
  /\ pc' = [pc EXCEPT !["caller"] = "p_emit"]
  /\ UNCHANGED <<cfgVars, m_bFastForwarding, m_cSimulatorTickMillis, simClock, ret, acct,
                 callVars, unFFStepCounter, phaseAtCheck, sinceVars>>

\* lines 207-211: EmitEvent("Experiment playing", m_eExperimentState), timer, return
Play_Emit ==
  /\ Running("p_emit")
  /\ acct' = EmitEvent("caller", "Experiment playing")
  /\ outcome' = "ok"
  /\ pc' = [pc EXCEPT !["caller"] = "ret"]
  /\ UNCHANGED <<cfgVars, m_eExperimentState, m_bFastForwarding, m_cSimulatorTickMillis,
                 simClock, ret, op, phaseAtCall, warned, unFFStepCounter, phaseAtCheck,
                 sinceVars>>

PlayExperiment ==
  \/ Play_Check
  \/ Play_ClearFF
  \/ Play_SetTick
  \/ Play_SetState
  \/ Play_Emit

(* ---- CWebviz::FastForwardExperiment ---- *)

\* lines 219-225: the guard only logs a warning, the operation goes on
FastForward_Check ==
  /\ Call("FastForward")
  /\ warned' = ~Startable(m_eExperimentState)
  /\ outcome' = "running"
  /\ pc' = [pc EXCEPT !["caller"] = "f_ff"]
  /\ UNCHANGED <<cfgVars, m_eExperimentState, m_bFastForwarding, m_cSimulatorTickMillis,
                 simClock, ret, unFFStepCounter, phaseAtCheck>>

\* line 226: m_bFastForwarding = true
FastForward_SetFF ==
  /\ Running("f_ff")
  /\ m_bFastForwarding' = TRUE
  /\ pc' = [pc EXCEPT !["caller"] = "f_tick"]
  /\ UNCHANGED <<cfgVars, m_eExperimentState, m_cSimulatorTickMillis, simClock, ret, acct,
                 callVars, unFFStepCounter, phaseAtCheck, sinceVars>>

\* lines 228-229: m_cSimulatorTickMillis from GetSimulationClockTick()
FastForward_SetTick ==
  /\ Running("f_tick")
  /\ m_cSimulatorTickMillis' = TickMillis(clockTick)
  /\ pc' = [pc EXCEPT !["caller"] = "f_state"]
  /\ UNCHANGED <<cfgVars, m_eExperimentState, m_bFastForwarding, simClock, ret, acct,
                 callVars, unFFStepCounter, phaseAtCheck, sinceVars>>

\* line 232: m_eExperimentState = EXPERIMENT_FAST_FORWARDING
FastForward_SetState ==
  /\ Running("f_state")
  /\ m_eExperimentState' = EXPERIMENT_FAST_FORWARDING
  /\ pc' = [pc EXCEPT !["caller"] = "f_emit"]
  /\ UNCHANGED <<cfgVars, m_bFastForwarding, m_cSimulatorTickMillis, simClock, ret, acct,
                 callVars, unFFStepCounter, phaseAtCheck, sinceVars>>

\* lines 233-237: EmitEvent("Experiment fast-forwarding", m_eExperimentState), timer, return
FastForward_Emit ==
  /\ Running("f_emit")
  /\ acct' = EmitEvent("caller", "Experiment fast-forwarding")
  /\ outcome' = "ok"
  /\ pc' = [pc EXCEPT !["caller"] = "ret"]
  /\ UNCHANGED <<cfgVars, m_eExperimentState, m_bFastForwarding, m_cSimulatorTickMillis,
                 simClock, ret, op, phaseAtCall, warned, unFFStepCounter, phaseAtCheck,
                 sinceVars>>

FastForwardExperiment ==
  \/ FastForward_Check
  \/ FastForward_SetFF
  \/ FastForward_SetTick
  \/ FastForward_SetState
  \/ FastForward_Emit

(* ---- CWebviz::PauseExperiment ---- *)

\* lines 245-255: the guard; in the wrong state log and throw std::runtime_error
Pause_Check ==
  /\ Call("Pause")
  /\ IF ~Active(m_eExperimentState)
       THEN /\ warned' = TRUE
            /\ outcome' = "threw"
            /\ pc' = [pc EXCEPT !["caller"] = "ret"]
       ELSE /\ warned' = FALSE
            /\ outcome' = "running"
            /\ pc' = [pc EXCEPT !["caller"] = "a_ff"]
  /\ UNCHANGED <<cfgVars, m_eExperimentState, m_bFastForwarding, m_cSimulatorTickMillis,
                 simClock, ret, unFFStepCounter, phaseAtCheck>>

\* line 257: m_bFastForwarding = false
Pause_ClearFF ==
  /\ Running("a_ff")
  /\ m_bFastForwarding' = FALSE
  /\ pc' = [pc EXCEPT !["caller"] = "a_state"]
  /\ UNCHANGED <<cfgVars, m_eExperimentState, m_cSimulatorTickMillis, simClock, ret, acct,
                 callVars, unFFStepCounter, phaseAtCheck, sinceVars>>

\* line 260: m_eExperimentState = EXPERIMENT_PAUSED
Pause_SetState ==
  /\ Running("a_state")
  /\ m_eExperimentState' = EXPERIMENT_PAUSED
  /\ pc' = [pc EXCEPT !["caller"] = "a_emit"]
  /\ UNCHANGED <<cfgVars, m_bFastForwarding, m_cSimulatorTickMillis, simClock, ret, acct,
                 callVars, unFFStepCounter, phaseAtCheck, sinceVars>>

\* lines 261-263: EmitEvent("Experiment paused", m_eExperimentState), return
Pause_Emit ==
  /\ Running("a_emit")
  /\ acct' = EmitEvent("caller", "Experiment paused")
  /\ outcome' = "ok"
  /\ pc' = [pc EXCEPT !["caller"] = "ret"]
  /\ UNCHANGED <<cfgVars, m_eExperimentState, m_bFastForwarding, m_cSimulatorTickMillis,
                 simClock, ret, op, phaseAtCall, warned, unFFStepCounter, phaseAtCheck,
                 sinceVars>>

PauseExperiment ==
  \/ Pause_Check
  \/ Pause_ClearFF
  \/ Pause_SetState
  \/ Pause_Emit

(* ---- CWebviz::StepExperiment ---- *)

\* lines 271-277: the guard; while PLAYING or FAST_FORWARDING log the warning
Step_Check ==
  /\ Call("Step")
  /\ warned' = Active(m_eExperimentState)
  /\ outcome' = "running"
  /\ pc' = [pc EXCEPT !["caller"] =
              IF Active(m_eExperimentState) THEN "s_coerce" ELSE "s_ff"]
  /\ UNCHANGED <<cfgVars, m_eExperimentState, m_bFastForwarding, m_cSimulatorTickMillis,
                 simClock, ret, unFFStepCounter, phaseAtCheck>>

\* lines 280-284 without the assignment: the operation returns and the run goes on
Step_Coerce_NoPause ==
  /\ Running("s_coerce")
  /\ m_eExperimentState' = m_eExperimentState
  /\ outcome' = "coerced"
  /\ pc' = [pc EXCEPT !["caller"] = "ret"]
  /\ UNCHANGED <<cfgVars, m_bFastForwarding, m_cSimulatorTickMillis, simClock, ret, acct,
                 op, phaseAtCall, warned, unFFStepCounter, phaseAtCheck, sinceVars>>

\* lines 280-284: m_eExperimentState = EXPERIMENT_PAUSED; return
Step_Coerce ==
  /\ Running("s_coerce")
  /\ m_eExperimentState' = EXPERIMENT_PAUSED
  /\ outcome' = "coerced"
  /\ pc' = [pc EXCEPT !["caller"] = "ret"]
  /\ UNCHANGED <<cfgVars, m_bFastForwarding, m_cSimulatorTickMillis, simClock, ret, acct,
                 op, phaseAtCall, warned, unFFStepCounter, phaseAtCheck, sinceVars>>

\* line 288: m_bFastForwarding = false
Step_ClearFF ==
  /\ Running("s_ff")
  /\ m_bFastForwarding' = FALSE
  /\ pc' = [pc EXCEPT !["caller"] = "s_finished"]
  /\ UNCHANGED <<cfgVars, m_eExperimentState, m_cSimulatorTickMillis, simClock, ret, acct,
                 callVars, unFFStepCounter, phaseAtCheck, sinceVars>>

\* line 290: if (!m_cSimulator.IsExperimentFinished())
Step_CheckFinished ==
  /\ Running("s_finished")
  /\ pc' = [pc EXCEPT !["caller"] =
              IF ~IsExperimentFinished THEN "s_prestep" ELSE "s_postexp"]
  /\ outcome' = IF ~IsExperimentFinished THEN "stepping" ELSE "completing"
  /\ UNCHANGED <<cfgVars, m_eExperimentState, m_bFastForwarding, m_cSimulatorTickMillis,
                 simClock, ret, acct, op, phaseAtCall, warned, unFFStepCounter,
                 phaseAtCheck, sinceVars>>

\* the simulation thread is between its phase check of line 98 and the end of
\* PostStep() at line 131
DriverMidIteration ==
  pc["driver"] \in {"d_finished", "d_prestep", "d_burst", "d_loop", "d_loop_state",
                    "d_update", "d_broadcast", "d_poststep"}

\* line 292 behind a lock that the simulation thread would hold during its iteration
Step_PreStep_Exclusive ==
  /\ Running("s_prestep")
  /\ ~DriverMidIteration
  /\ acct' = [acct EXCEPT !["caller"].pre = @ + 1]
  /\ pc' = [pc EXCEPT !["caller"] = "s_update"]
  /\ UNCHANGED <<cfgVars, m_eExperimentState, m_bFastForwarding, m_cSimulatorTickMillis,
                 simClock, ret, callVars, unFFStepCounter, phaseAtCheck, sinceVars>>

\* line 292: GetLoopFunctions().PreStep()
Step_PreStep ==
  /\ Running("s_prestep")
  /\ acct' = [acct EXCEPT !["caller"].pre = @ + 1]
  /\ pc' = [pc EXCEPT !["caller"] = "s_update"]
  /\ UNCHANGED <<cfgVars, m_eExperimentState, m_bFastForwarding, m_cSimulatorTickMillis,
                 simClock, ret, callVars, unFFStepCounter, phaseAtCheck, sinceVars>>

\* line 295 with UpdateSpace() called twice
Step_UpdateSpace_Twice ==
  /\ Running("s_update")
  /\ simClock' = simClock + 2
  /\ acct' = [acct EXCEPT !["caller"].steps = @ + 2]
  /\ pc' = [pc EXCEPT !["caller"] = "s_poststep"]
  /\ UNCHANGED <<cfgVars, m_eExperimentState, m_bFastForwarding, m_cSimulatorTickMillis,
                 ret, callVars, unFFStepCounter, phaseAtCheck, sinceVars>>

\* line 295: m_cSimulator.UpdateSpace()
Step_UpdateSpace ==
  /\ Running("s_update")
  /\ simClock' = simClock + 1
  /\ acct' = [acct EXCEPT !["caller"].steps = @ + 1]
  /\ pc' = [pc EXCEPT !["caller"] = "s_poststep"]
  /\ UNCHANGED <<cfgVars, m_eExperimentState, m_bFastForwarding, m_cSimulatorTickMillis,
                 ret, callVars, unFFStepCounter, phaseAtCheck, sinceVars>>

\* line 298: GetLoopFunctions().PostStep()
Step_PostStep ==
  /\ Running("s_poststep")
  /\ acct' = [acct EXCEPT !["caller"].post = @ + 1]
  /\ pc' = [pc EXCEPT !["caller"] = "s_emit_step"]
  /\ UNCHANGED <<cfgVars, m_eExperimentState, m_bFastForwarding, m_cSimulatorTickMillis,
                 simClock, ret, callVars, unFFStepCounter, phaseAtCheck, sinceVars>>

\* line 301: EmitEvent("Experiment step done", m_eExperimentState)
Step_EmitStepDone ==
  /\ Running("s_emit_step")
  /\ acct' = EmitEvent("caller", "Experiment step done")
  /\ pc' = [pc EXCEPT !["caller"] = "s_broadcast"]
  /\ UNCHANGED <<cfgVars, m_eExperimentState, m_bFastForwarding, m_cSimulatorTickMillis,
                 simClock, ret, callVars, unFFStepCounter, phaseAtCheck, sinceVars>>

\* lines 304-306 without the call of ResetExperiment()
Step_PostExperiment_NoReset ==
  /\ Running("s_postexp")
  /\ acct' = [acct EXCEPT !["caller"].postExp = @ + 1]
  /\ pc' = [pc EXCEPT !["caller"] = "s_emit_done"]
  /\ UNCHANGED <<cfgVars, m_eExperimentState, m_bFastForwarding, m_cSimulatorTickMillis,
                 simClock, ret, callVars, unFFStepCounter, phaseAtCheck, sinceVars>>

\* lines 304-306: PostExperiment(), then the call of ResetExperiment()
Step_PostExperiment ==
  /\ Running("s_postexp")
  /\ acct' = [acct EXCEPT !["caller"].postExp = @ + 1]
  /\ pc' = [pc EXCEPT !["caller"] = "r_sim"]
  /\ ret' = [ret EXCEPT !["caller"] = "s_emit_done"]
  /\ UNCHANGED <<cfgVars, m_eExperimentState, m_bFastForwarding, m_cSimulatorTickMillis,
                 simClock, callVars, unFFStepCounter, phaseAtCheck, sinceVars>>

\* line 309: EmitEvent("Experiment done", m_eExperimentState)
Step_EmitDone ==
  /\ Running("s_emit_done")
  /\ acct' = EmitEvent("caller", "Experiment done")
  /\ pc' = [pc EXCEPT !["caller"] = "s_broadcast"]
  /\ UNCHANGED <<cfgVars, m_eExperimentState, m_bFastForwarding, m_cSimulatorTickMillis,
                 simClock, ret, callVars, unFFStepCounter, phaseAtCheck, sinceVars>>

\* line 314: BroadcastExperimentState(), return
Step_Broadcast ==
  /\ Running("s_broadcast")
  /\ acct' = BroadcastExperimentState("caller")
  /\ outcome' = IF outcome = "stepping" THEN "stepped" ELSE "completed"
  /\ pc' = [pc EXCEPT !["caller"] = "ret"]
  /\ UNCHANGED <<cfgVars, m_eExperimentState, m_bFastForwarding, m_cSimulatorTickMillis,
                 simClock, ret, op, phaseAtCall, warned, unFFStepCounter, phaseAtCheck,
                 sinceVars>>

StepExperiment ==
  \/ Step_Check
  \/ Step_Coerce
  \/ Step_ClearFF
  \/ Step_CheckFinished
  \/ Step_PreStep
  \/ Step_UpdateSpace
  \/ Step_PostStep
  \/ Step_EmitStepDone
  \/ Step_PostExperiment
  \/ Step_EmitDone
  \/ Step_Broadcast

(* ---- CWebviz::ResetExperiment as a control operation ---- *)

\* the web server's thread enters ResetExperiment(): no guard, line 320
Reset_Call ==
  /\ Call("Reset")
  /\ warned' = FALSE
  /\ outcome' = "running"
  /\ pc' = [pc EXCEPT !["caller"] = "r_sim"]
  /\ ret' = [ret EXCEPT !["caller"] = "ret"]
  /\ UNCHANGED <<cfgVars, m_eExperimentState, m_bFastForwarding, m_cSimulatorTickMillis,
                 simClock, unFFStepCounter, phaseAtCheck>>

\* the operation returns (or unwinds) into the web server's loop, its locals are gone
Caller_Return ==
  /\ Running("ret")
  /\ pc' = [pc EXCEPT !["caller"] = "idle"]
  /\ acct' = [acct EXCEPT !["caller"] = ZeroAcct]
  /\ phaseAtCall' = EXPERIMENT_INITIALIZED
  /\ warned' = FALSE
  /\ UNCHANGED <<cfgVars, m_eExperimentState, m_bFastForwarding, m_cSimulatorTickMillis,
                 simClock, ret, op, outcome, unFFStepCounter, phaseAtCheck, sinceVars>>

(* ======================= the whole program ======================= *)

Next ==
  \/ \E bf \in BroadcastFrequencyInputs, dfe \in 0..MaxDrawFrameEvery : WebvizInit(bf, dfe)
  \/ Execute
  \/ WebServer_StartReturns
  \/ Execute_JoinDriver
  \/ PlayExperiment
  \/ FastForwardExperiment
  \/ PauseExperiment
  \/ StepExperiment
  \/ Reset_Call
  \/ ResetExperiment("caller")
  \/ Caller_Return
  \/ SimulationThreadFunction

Spec == Init /\ [][Next]_vars

TypeOK ==
  /\ m_eExperimentState \in EExperimentState
  /\ m_bFastForwarding \in BOOLEAN
  /\ simClock \in 0..(MaxClock + 1)
  /\ unFFStepCounter \in 0..(MaxDrawFrameEvery + 1)

(* ======================= properties ======================= *)

CallerAcct == acct["caller"]
DriverAcct == acct["driver"]

\* the caller thread is between two control operations
CallerQuiet == pc["caller"] \in {"ret", "idle"}

\* the driver thread is inside ResetExperiment
DriverInReset == pc["driver"] \in {"r_sim", "r_ff", "r_state", "r_emit", "r_bc"}

\* this step is the return of control operation o
ReturnsFrom(o) == pc["caller"] # "ret" /\ pc'["caller"] = "ret" /\ op' = o

\* the names of the events in a sequence of <<name, phase>> pairs
Names(evs) == [i \in 1..Len(evs) |-> evs[i][1]]

\* C1: whenever no thread is in the middle of an operation that writes them,
\* m_bFastForwarding is true exactly when m_eExperimentState is FAST_FORWARDING.
C1_FlagIffFastForwarding ==
  (CallerQuiet /\ ~DriverInReset) =>
    (m_bFastForwarding <=> m_eExperimentState = EXPERIMENT_FAST_FORWARDING)

\* C2: PlayExperiment() entered in INITIALIZED or PAUSED returns with the phase PLAYING,
\* the flag cleared, the tick recomputed and exactly one "Experiment playing" event
\* carrying PLAYING; entered in PLAYING or FAST_FORWARDING it changes nothing, emits
\* nothing and logs the warning.
C2_PlayContract ==
  [][ReturnsFrom("Play") =>
       IF Startable(phaseAtCall')
         THEN /\ m_eExperimentState' = EXPERIMENT_PLAYING
              /\ m_bFastForwarding' = FALSE
              /\ m_cSimulatorTickMillis' = TickMillis(clockTick)
              /\ CallerAcct'.events = << <<"Experiment playing", EXPERIMENT_PLAYING>> >>
         ELSE /\ m_eExperimentState' = m_eExperimentState
              /\ m_bFastForwarding' = m_bFastForwarding
              /\ m_cSimulatorTickMillis' = m_cSimulatorTickMillis
              /\ CallerAcct'.events = << >>
              /\ warned']_vars

\* C3: FastForwardExperiment() entered in any phase returns with the phase
\* FAST_FORWARDING, the flag set, the tick recomputed and exactly one
\* "Experiment fast-forwarding" event; it warns exactly when entered in PLAYING or
\* FAST_FORWARDING and is never rejected.
C3_FastForwardContract ==
  [][ReturnsFrom("FastForward") =>
       /\ m_eExperimentState' = EXPERIMENT_FAST_FORWARDING
       /\ m_bFastForwarding' = TRUE
       /\ m_cSimulatorTickMillis' = TickMillis(clockTick)
       /\ CallerAcct'.events =
            << <<"Experiment fast-forwarding", EXPERIMENT_FAST_FORWARDING>> >>
       /\ warned' = Active(phaseAtCall')
       /\ outcome' = "ok"]_vars

\* C4: PauseExperiment() entered in PLAYING or FAST_FORWARDING returns with the phase
\* PAUSED, the flag cleared and exactly one "Experiment paused" event; entered in
\* INITIALIZED or PAUSED it throws, changes neither phase nor flag and emits nothing.
C4_PauseContract ==
  [][ReturnsFrom("Pause") =>
       IF Active(phaseAtCall')
         THEN /\ m_eExperimentState' = EXPERIMENT_PAUSED
              /\ m_bFastForwarding' = FALSE
              /\ CallerAcct'.events = << <<"Experiment paused", EXPERIMENT_PAUSED>> >>
              /\ outcome' = "ok"
         ELSE /\ outcome' = "threw"
              /\ m_eExperimentState' = m_eExperimentState
              /\ m_bFastForwarding' = m_bFastForwarding
              /\ CallerAcct'.events = << >>]_vars

\* C5: StepExperiment() entered in PLAYING or FAST_FORWARDING writes PAUSED and returns
\* at once: on the caller thread no engine step, no PreStep/PostStep hook, no event
\* and no snapshot broadcast.
C5_StepWhileRunningOnlyPauses ==
  [][(ReturnsFrom("Step") /\ Active(phaseAtCall')) =>
       /\ outcome' = "coerced"
       /\ m_eExperimentState' = EXPERIMENT_PAUSED
       /\ simClock' = simClock
       /\ CallerAcct' = ZeroAcct]_vars

C5_Witness ==
  /\ pc["caller"] = "ret"
  /\ op = "Step"
  /\ outcome = "coerced"
  /\ phaseAtCall = EXPERIMENT_FAST_FORWARDING
  /\ m_eExperimentState = EXPERIMENT_PAUSED

\* C6: StepExperiment() entered in PAUSED or INITIALIZED that finds the engine not
\* finished runs on the caller thread exactly one PreStep / UpdateSpace / PostStep
\* cycle, the UpdateSpace raising the step count by exactly one, emits exactly one
\* "Experiment step done" event, broadcasts exactly one snapshot and returns with the
\* fast-forward flag cleared.
C6_StepRunsOneCycle ==
  [][/\ (ReturnsFrom("Step") /\ outcome' = "stepped") =>
          /\ Startable(phaseAtCall')
          /\ CallerAcct'.pre = 1
          /\ CallerAcct'.steps = 1
          /\ CallerAcct'.post = 1
          /\ CallerAcct'.postExp = 0
          /\ Names(CallerAcct'.events) = <<"Experiment step done">>
          /\ CallerAcct'.broadcasts = 1
          /\ m_bFastForwarding' = FALSE
     /\ (ReturnsFrom("Step") /\ ~Active(phaseAtCall')) =>
          outcome' \in {"stepped", "completed"}
     /\ (pc["caller"] = "s_finished" /\ pc'["caller"] # "s_finished" /\ ~IsExperimentFinished) =>
          outcome' = "stepping"
     /\ (CallerAcct'.steps > CallerAcct.steps) =>
          /\ CallerAcct'.steps = CallerAcct.steps + 1
          /\ simClock' = simClock + 1]_vars

C6_Witness ==
  /\ pc["caller"] = "ret"
  /\ op = "Step"
  /\ outcome = "stepped"
  /\ phaseAtCall = EXPERIMENT_PAUSED
  /\ CallerAcct.steps = 1

\* C7: ResetExperiment() as a control operation is accepted in every phase and every
\* engine state: it sets the step count back to 0 and returns with the flag cleared,
\* the phase INITIALIZED, exactly one "Experiment reset" event carrying INITIALIZED
\* and exactly one snapshot broadcast.
C7_ResetAlwaysSucceeds ==
  [][/\ (Alive /\ serving /\ pc["caller"] = "idle") => ENABLED Reset_Call
     /\ (op = "Reset" /\ pc["caller"] = "r_sim" /\ pc'["caller"] # "r_sim") => simClock' = 0
     /\ ReturnsFrom("Reset") =>
          /\ outcome' = "ok"
          /\ m_bFastForwarding' = FALSE
          /\ m_eExperimentState' = EXPERIMENT_INITIALIZED
          /\ CallerAcct'.events = << <<"Experiment reset", EXPERIMENT_INITIALIZED>> >>
          /\ CallerAcct'.broadcasts = 1
          /\ CallerAcct'.steps = 0]_vars

C7_Witness ==
  /\ pc["caller"] = "ret"
  /\ op = "Reset"
  /\ outcome = "ok"
  /\ phaseAtCall = EXPERIMENT_FAST_FORWARDING
  /\ simClock = 0

\* this step ends an iteration of the driver's outer loop (or the thread)
IterationEnds ==
  /\ pc["driver"] \notin {"d_check", "d_exited"}
  /\ pc'["driver"] \in {"d_check", "d_exited"}

\* C8 as stated: every iteration the driver enters in FAST_FORWARDING makes at most
\* m_unDrawFrameEvery engine steps and exactly one snapshot broadcast, the iteration
\* in which the engine becomes finished included.
C8_OneBroadcastPerIteration ==
  [][(IterationEnds /\ phaseAtCheck = EXPERIMENT_FAST_FORWARDING) =>
       /\ DriverAcct'.steps <= m_unDrawFrameEvery
       /\ DriverAcct'.broadcasts = 1]_vars

\* C8 amended: every iteration the driver enters in FAST_FORWARDING makes at most
\* m_unDrawFrameEvery engine steps (at most one when m_unDrawFrameEvery is 0) and one
\* snapshot broadcast, never one per inner step; the iteration that ends the run
\* broadcasts a second snapshot, from the ResetExperiment of its completion handling.
C8_BurstAndBroadcasts ==
  [][(IterationEnds /\ phaseAtCheck = EXPERIMENT_FAST_FORWARDING) =>
       /\ DriverAcct'.steps <= (IF m_unDrawFrameEvery = 0 THEN 1 ELSE m_unDrawFrameEvery)
       /\ DriverAcct'.broadcasts = (IF pc'["driver"] = "d_exited" THEN 2 ELSE 1)]_vars

C8_Witness ==
  /\ pc["driver"] = "d_exited"
  /\ phaseAtCheck = EXPERIMENT_FAST_FORWARDING
  /\ m_unDrawFrameEvery = 2
  /\ DriverAcct.steps = 2
  /\ DriverAcct.broadcasts = 2

\* a successful PauseExperiment() has returned and no other operation has been called
AfterPause == CallerQuiet /\ op = "Pause" /\ outcome = "ok"

\* C9: after a successful PauseExperiment() has returned and until the next control
\* operation is called, the driver makes at most one more engine step, and once it has
\* read the phase again it has no engine step pending.
C9_PauseStopsDriver ==
  AfterPause =>
    /\ sinceRetSteps <= 1
    /\ sinceRetChecked => pc["driver"] # "d_update"

C9_Witness ==
  /\ AfterPause
  /\ sinceRetSteps = 1
  /\ sinceRetChecked
  /\ m_eExperimentState = EXPERIMENT_PAUSED

\* C10: when the driver finds the engine finished after a burst it calls
\* PostExperiment, runs ResetExperiment (which writes INITIALIZED), emits
\* "Experiment done" and leaves its loop for good; from then on the step count only
\* rises through the UpdateSpace of StepExperiment on the caller thread.
C10_DriverExitsForGood ==
  [][/\ (pc["driver"] = "d_done_check" /\ pc'["driver"] # "d_done_check"
           /\ IsExperimentFinished) => pc'["driver"] = "d_postexp"
     /\ (pc["driver"] = "r_state" /\ pc'["driver"] # "r_state") =>
          m_eExperimentState' = EXPERIMENT_INITIALIZED
     /\ (pc["driver"] = "d_emit_done" /\ pc'["driver"] # "d_emit_done") =>
          /\ pc'["driver"] = "d_exited"
          /\ Active(phaseAtCheck)
          /\ DriverAcct'.postExp = 1
          /\ Names(DriverAcct'.events) = <<"Experiment reset", "Experiment done">>
     /\ pc["driver"] = "d_exited" =>
          /\ pc'["driver"] = "d_exited"
          /\ simClock' > simClock => (op = "Step" /\ pc["caller"] = "s_update")]_vars

C10_Witness ==
  /\ pc["driver"] = "d_exited"
  /\ pc["caller"] = "idle"
  /\ op = "Play"
  /\ outcome = "ok"
  /\ m_eExperimentState = EXPERIMENT_PLAYING
  /\ simClock = 0

\* the runs of one configured tick length: the tick length only scales
\* m_cSimulatorTickMillis (lines 201, 227) and decides no branch
FairInit == Init /\ clockTick = 1000

\* the scheduler keeps running the simulation thread: its sleeps are finite
FairSpec == FairInit /\ [][Next]_vars /\ WF_vars(SimulationThreadFunction)

\* PlayExperiment() entered in INITIALIZED has just returned: the phase is PLAYING and
\* the step count is still 0
PlayedFromZero ==
  /\ pc["caller"] = "ret"
  /\ op = "Play"
  /\ outcome = "ok"
  /\ phaseAtCall = EXPERIMENT_INITIALIZED
  /\ m_eExperimentState = EXPERIMENT_PLAYING
  /\ simClock = 0

\* no other control operation has been entered since that PlayExperiment()
AfterPlay == CallerQuiet /\ op = "Play" /\ outcome = "ok"

\* the simulation thread is in its loop and not in the run-completion handling of
\* lines 134-143 or 163-172
DriverInLoop ==
  /\ pc["driver"] \notin {"d_postexp", "d_emit_done", "d_exited",
                          "d_already_done", "d_emit_done_loop"}
  /\ ~DriverInReset

\* C11 as stated, for any simulation thread that has not terminated: once
\* PlayExperiment() entered in INITIALIZED has returned with the step count at 0, a
\* fairly scheduled driver brings the step count to 1 unless another control operation
\* is entered first.
C11_PlayWithLiveDriver ==
  (PlayedFromZero /\ pc["driver"] # "d_exited") ~> (simClock >= 1 \/ ~AfterPlay)

\* C11, for a driver in its loop: once PlayExperiment() entered in INITIALIZED has returned with the step count
\* at 0 and the simulation thread in its loop (not handling a finished run), a fairly
\* scheduled driver brings the step count to 1 unless another control operation is
\* entered first; and every iteration the
\* driver begins and ends in PLAYING after that Play, with the engine not finished at
\* line 102, makes exactly one engine step.
C11_PlayStartsStepping ==
  /\ (PlayedFromZero /\ DriverInLoop) ~> (simClock >= 1 \/ ~AfterPlay)
  /\ [][(IterationEnds /\ AfterPlay /\ iterQuiet /\ phaseAtCheck = EXPERIMENT_PLAYING
           /\ DriverAcct.pre = 1) =>
          /\ DriverAcct'.steps = 1
          /\ DriverAcct'.pre = 1
          /\ DriverAcct'.post = 1]_vars

C11_Witness ==
  /\ AfterPlay
  /\ iterQuiet
  /\ phaseAtCheck = EXPERIMENT_PLAYING
  /\ pc["driver"] = "d_pace"
  /\ DriverAcct.steps = 1
  /\ simClock = 1

\* this step is the return of the simulation thread function
DriverExits == pc["driver"] # "d_exited" /\ pc'["driver"] = "d_exited"

\* C12: Execute() has returned only if the simulation thread has terminated, and the
\* thread terminates only by the return of line 143: in an iteration it began in
\* PLAYING or FAST_FORWARDING with the engine not finished at line 102, after the
\* burst and PostStep(), having run PostExperiment() and ResetExperiment() and emitted
\* "Experiment done". So where that branch is never reached Execute() never returns.
C12_ExecuteJoinsDriver ==
  /\ [](executePc = "returned" =>
         /\ pc["driver"] = "d_exited"
         /\ DriverAcct.postExp = 1)
  /\ [][DriverExits =>
          /\ pc["driver"] = "d_emit_done"
          /\ Active(phaseAtCheck)
          /\ DriverAcct'.pre = 1
          /\ DriverAcct'.post = 1
          /\ DriverAcct'.postExp = 1
          /\ Names(DriverAcct'.events) = <<"Experiment reset", "Experiment done">>]_vars

C12_Witness ==
  /\ executePc = "returned"
  /\ pc["driver"] = "d_exited"
  /\ serving = FALSE

CallerStepping == pc["caller"] \in {"s_prestep", "s_update", "s_poststep"}

\* C14: nothing makes the two threads' engine steps exclude each other: with the
\* simulation thread anywhere in an iteration, StepExperiment() on the caller thread
\* can take each step of its PreStep/UpdateSpace/PostStep cycle, and with the caller
\* inside that cycle the driver can take its own UpdateSpace().
C14_NoMutualExclusion ==
  /\ (DriverMidIteration /\ pc["caller"] = "s_prestep") => ENABLED Step_PreStep
  /\ (DriverMidIteration /\ pc["caller"] = "s_update") => ENABLED Step_UpdateSpace
  /\ (DriverMidIteration /\ pc["caller"] = "s_poststep") => ENABLED Step_PostStep
  /\ (CallerStepping /\ pc["driver"] = "d_update") => ENABLED Driver_UpdateSpace

\* both threads are about to call m_cSimulator.UpdateSpace()
C14_Witness ==
  /\ pc["caller"] = "s_update"
  /\ pc["driver"] = "d_update"
  /\ op = "Step"
  /\ ~IsExperimentFinished

\* the simulation thread is in the branch of lines 163-172
DriverInAlreadyDone ==
  \/ pc["driver"] \in {"d_already_done", "d_emit_done_loop"}
  \/ DriverInReset /\ ret["driver"] = "d_emit_done_loop"

\* C15: an iteration begun in PLAYING or FAST_FORWARDING that finds the engine finished
\* at line 102 takes the branch of lines 163-172: no PreStep(), no engine step, one
\* PostExperiment(), ResetExperiment() (writing INITIALIZED, emitting "Experiment
\* reset"), then "Experiment done", and the thread goes back to the head of its loop.
\* A PlayExperiment() accepted while the branch finishes is followed by an engine step.
C15_AlreadyFinishedLoopsOn ==
  /\ [][(pc["driver"] = "d_finished" /\ pc'["driver"] # "d_finished"
          /\ IsExperimentFinished) =>
           /\ pc'["driver"] = "d_already_done"
           /\ Active(phaseAtCheck)]_vars
  /\ [][(DriverInAlreadyDone /\ pc["driver"] = "r_state" /\ pc'["driver"] # "r_state") =>
           m_eExperimentState' = EXPERIMENT_INITIALIZED]_vars
  /\ [][(DriverInAlreadyDone /\ ~DriverInAlreadyDone') =>
           /\ pc'["driver"] = "d_check"
           /\ DriverAcct'.steps = 0
           /\ DriverAcct'.pre = 0
           /\ DriverAcct'.post = 0
           /\ DriverAcct'.postExp = 1
           /\ Names(DriverAcct'.events) = <<"Experiment reset", "Experiment done">>]_vars
  /\ (PlayedFromZero /\ pc["driver"] = "d_emit_done_loop")
       ~> (simClock >= 1 \/ ~AfterPlay)

C15_Witness ==
  /\ PlayedFromZero
  /\ pc["driver"] = "d_emit_done_loop"
  /\ DriverAcct.steps = 0
  /\ DriverAcct.postExp = 1
  /\ Names(DriverAcct.events) = <<"Experiment reset">>

\* the caller thread is inside the ResetExperiment() called by StepExperiment()
StepInReset ==
  /\ op = "Step"
  /\ pc["caller"] \in {"r_sim", "r_ff", "r_state", "r_emit", "r_bc"}

\* C16: StepExperiment() entered in INITIALIZED or PAUSED that finds the engine finished
\* at line 290 makes no PreStep/UpdateSpace/PostStep and emits no "Experiment step
\* done": it runs PostExperiment() once, then ResetExperiment() (step count to 0, phase
\* INITIALIZED, flag cleared, "Experiment reset" carrying INITIALIZED, a snapshot),
\* then emits "Experiment done" and broadcasts a second snapshot; none of its steps
\* moves the simulation thread, which is not terminated by it.
C16_StepOnFinishedEngine ==
  [][/\ (pc["caller"] = "s_finished" /\ pc'["caller"] # "s_finished" /\ IsExperimentFinished) =>
          /\ outcome' = "completing"
          /\ pc'["caller"] = "s_postexp"
     /\ (StepInReset /\ pc["caller"] = "r_sim" /\ pc'["caller"] # "r_sim") => simClock' = 0
     /\ (StepInReset /\ pc["caller"] = "r_state" /\ pc'["caller"] # "r_state") =>
          m_eExperimentState' = EXPERIMENT_INITIALIZED
     /\ (ReturnsFrom("Step") /\ outcome' = "completed") =>
          /\ Startable(phaseAtCall')
          /\ CallerAcct'.pre = 0
          /\ CallerAcct'.steps = 0
          /\ CallerAcct'.post = 0
          /\ CallerAcct'.postExp = 1
          /\ CallerAcct'.events = << <<"Experiment reset", EXPERIMENT_INITIALIZED>>,
                                     <<"Experiment done", EXPERIMENT_INITIALIZED>> >>
          /\ CallerAcct'.broadcasts = 2
          /\ m_eExperimentState' = EXPERIMENT_INITIALIZED
          /\ m_bFastForwarding' = FALSE
     /\ (op' = "Step" /\ pc'["caller"] # pc["caller"]) => pc'["driver"] = pc["driver"]]_vars

C16_Witness ==
  /\ pc["caller"] = "ret"
  /\ op = "Step"
  /\ outcome = "completed"
  /\ CallerAcct.postExp = 1
  /\ pc["driver"] # "d_exited"

\* C17: as long as Init has not created the web server, the simulation thread has
\* sent no snapshot and emitted no event through it.
C17_NoBroadcastBeforeServer ==
  m_cWebServer = "unset" =>
    /\ DriverAcct.broadcasts = 0
    /\ DriverAcct.events = <<>>

\* C18: every control operation that has written m_eExperimentState returns having
\* emitted at least one event (each event carries the phase held at its emission), and
\* so does every run-completion handling of the simulation thread.
C18_PhaseChangeNotified ==
  [][/\ (pc["caller"] # "ret" /\ pc'["caller"] = "ret"
          /\ outcome' \in {"ok", "coerced", "completed"}) =>
           CallerAcct'.events # <<>>
     /\ (IterationEnds /\ DriverAcct'.postExp = 1) => DriverAcct'.events # <<>>]_vars

\* C19: whatever ff_draw_frames_every Init stored, an iteration of the simulation
\* thread that read FAST_FORWARDING at line 98, found the engine not finished at line
\* 102 and ran with no control operation entered meanwhile (the phase is still
\* FAST_FORWARDING at its end) has made at least one engine step.
C19_FastForwardAdvances ==
  [][(IterationEnds /\ iterQuiet /\ CallerQuiet
        /\ phaseAtCheck = EXPERIMENT_FAST_FORWARDING
        /\ m_eExperimentState = EXPERIMENT_FAST_FORWARDING
        /\ m_bFastForwarding
        /\ DriverAcct.pre = 1) =>
       DriverAcct'.steps >= 1]_vars

\* ResetExperiment() called as a control operation has returned and no control
\* operation has been entered since
AfterReset == CallerQuiet /\ op = "Reset" /\ outcome = "ok"

====
